---- MODULE Spec2Model ----
(***************************************************************************)
(* PlaywrightController (src/playwright_controller.py): the cross-thread   *)
(* bridge that hands every automation call to one "PW-Owner" worker thread *)
(* through a task queue and a result queue, and the lifecycle operations   *)
(* built on it.  Caller threads and worker threads are interleaved one     *)
(* shared-state access at a time.                                          *)
(***************************************************************************)
EXTENDS Integers, Sequences, FiniteSets, TLC

\* ------------------------------------------------------------------ bounds
NCallers == 2          \* caller threads of the one controller
MaxCalls == 2          \* public operations invoked in a run by concurrent callers
MaxSeqCalls == 3       \* public operations invoked in a run by a single caller
MaxLogCalls == 3       \* log-appending operations invoked in a run by concurrent callers
MaxFairCalls == 2      \* public operations invoked in a run checked for progress
MaxTourCalls == 5      \* public operations invoked in a launch-to-shutdown session and after it
MaxScriptCalls == 4    \* public operations invoked in a run that saves the script

Largest == IF MaxCalls >= MaxSeqCalls /\ MaxCalls >= MaxLogCalls THEN MaxCalls
           ELSE IF MaxSeqCalls >= MaxLogCalls THEN MaxSeqCalls ELSE MaxLogCalls

Callers == 1..NCallers
\* every _call_on_worker starts at most one Thread, and an invocation makes at most two
Workers == (NCallers + 1)..(NCallers + 2 * Largest)
Threads == Callers \cup Workers
SeqCallers == {1}

\* None for the thread-valued fields (_worker_thread, _owner_thread_id, playwright)
None == 0

\* ------------------------------------------------------------------ inputs
Http == <<"h", "t", "t", "p">>
Scheme == <<"h", "t", "t", "p", ":", "/", "/">>
\* a host name, the same with its scheme, and a host name that begins with "http"
Urls == { <<"a", ".", "i", "o">>, Scheme \o <<"a", ".", "i", "o">>,
          <<"h", "t", "t", "p", "b", ".", "i", "o">> }

Ops == {"launch_mcp_server", "connect", "open_browser", "goto",
        "get_page_contents", "close_browser", "shutdown", "reentrant"}

LogOps == {"connect", "close_browser"}

\* the operations of a browsing session: launch, open, navigate, shut down
TourOps == {"launch_mcp_server", "open_browser", "goto", "shutdown"}

\* the operations that write the command log, and save_script which reads it
ScriptOps == {"launch_mcp_server", "open_browser", "goto", "close_browser", "shutdown",
              "save_script"}

\* what the driver does when a body calls into it
DriverOutcomes == {"ok", "fail", "fail2"}

NoTask == [fn |-> "none", by |-> 0, n |-> 0, url |-> <<>>]
\* the stop sentinel shutdown puts on the task queue (Python's None item)
Sentinel == [fn |-> "None", by |-> 0, n |-> 0, url |-> <<>>]
NoResult == [ok |-> TRUE, msg |-> "none", arg |-> <<>>, of |-> <<0, 0>>, fn |-> "none"]
NoRet == [kind |-> "none", msg |-> "none", arg |-> <<>>, fn |-> "none", n |-> 0]

VARIABLES
    mcp_server_process,  \* "None" | "alive" | "zombie" (exited, not polled) | "reaped"
    playwright,          \* None, or the thread that started the driver
    browser,             \* "None" | "connected" | "disconnected"
    page,                \* "None" | "page"
    commands,            \* the command log
    ws_endpoint,         \* "None" | the discovered address
    owner_thread_id,     \* _owner_thread_id
    task_queue,          \* _task_queue
    result_queue,        \* _result_queue
    stop_event,          \* _stop_event
    worker_thread,       \* _worker_thread: None or a Thread object
    pc,                  \* each thread's position
    cur,                 \* caller: the public call in progress; worker: the dequeued task
    got,                 \* the last result a thread took from the result queue, with the task it had put
    ret,                 \* what each caller's last public call returned or raised
    exc,                 \* the exception pending in a caller's shutdown (try/finally)
    launch_fail,         \* why a caller's launch_mcp_server is shutting down
    calls,               \* public calls made so far, per caller
    budget,              \* public calls the callers may still make
    menu,                \* the operations the callers invoke
    on_owner,            \* the workers that were the recorded owner when they took a "reentrant" task
    last_signal,         \* the last signal sent to the server's process group
    pending,             \* the tasks put on the task queue whose function has not been called yet, in put order
    recovering           \* 0, -1 once an idle owner thread has died, then the caller of the next operation

session == <<mcp_server_process, playwright, browser, page, commands, ws_endpoint>>
gate == <<owner_thread_id, task_queue, result_queue, stop_event, worker_thread, pending>>
vars == <<mcp_server_process, playwright, browser, page, commands, ws_endpoint,
          owner_thread_id, task_queue, result_queue, stop_event, worker_thread,
          pc, cur, got, ret, exc, launch_fail, calls, budget, menu, on_owner, last_signal,
          pending, recovering>>

Endpoint == "ws://127.0.0.1:9999/abc"

Start ==
    /\ mcp_server_process = "None"
    /\ playwright = None
    /\ browser = "None"
    /\ page = "None"
    /\ commands = <<>>
    /\ ws_endpoint = "None"
    /\ owner_thread_id = None
    /\ task_queue = <<>>
    /\ result_queue = <<>>
    /\ stop_event = FALSE
    /\ worker_thread = None
    /\ pc = [t \in Threads |-> IF t \in Callers THEN "idle" ELSE "unborn"]
    /\ cur = [t \in Threads |-> NoTask]
    /\ got = [t \in Threads |-> [res |-> NoResult, for |-> NoTask]]
    /\ ret = [c \in Callers |-> NoRet]
    /\ exc = [c \in Callers |-> "none"]
    /\ launch_fail = [c \in Callers |-> "none"]
    /\ calls = [c \in Callers |-> 0]
    /\ last_signal = "none"
    /\ recovering = 0
    /\ on_owner = {}
    /\ pending = <<>>

\* two caller threads share the controller
Init == Start /\ budget = MaxCalls /\ menu = Ops

\* one caller thread uses the controller
InitSeq == Start /\ budget = MaxSeqCalls /\ menu = Ops

\* two caller threads invoke only operations that append to the command log
InitLog == Start /\ budget = MaxLogCalls /\ menu = LogOps

\* one caller thread uses the controller, in the runs checked for progress
InitFair == Start /\ budget = MaxFairCalls /\ menu = Ops

\* one caller thread takes the controller through a browsing session
InitTour == Start /\ budget = MaxTourCalls /\ menu = TourOps

\* one caller thread records a session and saves it as a script
InitScript == Start /\ budget = MaxScriptCalls /\ menu = ScriptOps

\* ------------------------------------------------------------------ helpers
\* threading.Thread.is_alive(): started and run() not yet over
IsAlive(w) == w \in Workers /\ pc[w] \notin {"unborn", "created", "exited", "dead"}

Created == {w \in Workers : pc[w] # "unborn"}
FreshWorker == NCallers + 1 + Cardinality(Created)

TaskId(k) == <<k.by, k.n>>

\* str.startswith
StartsWith(s, p) == Len(s) >= Len(p) /\ SubSeq(s, 1, Len(p)) = p

Entry(cmd, arg, k, t) == [cmd |-> cmd, arg |-> arg, of |-> TaskId(k), th |-> t, op |-> k.fn]

\* the function a public call hands to _call_on_worker: shutdown (also when
\* launch_mcp_server calls it) hands over _do_close, every other operation its _do
FuncOf(k) == IF k.fn \in {"shutdown", "launch_mcp_server"} THEN [k EXCEPT !.fn = "_do_close"]
             ELSE k

\* the operation a "reentrant" body calls through _call_on_worker from the owner thread
InnerOf(k) == [k EXCEPT !.fn = "connect"]

\* sequence q without its entries equal to k
Without(q, k) == SelectSeq(q, LAMBDA x : x # k)

\* the task thread t is dispatching through _call_on_worker
Dispatched(t) == IF t \in Callers THEN FuncOf(cur[t]) ELSE InnerOf(cur[t])

\* a caller whose _call_on_worker is the one inside shutdown
InShutdown(c) == cur[c].fn \in {"shutdown", "launch_mcp_server"}

\* ------------------------------------------------------------------ the _do bodies
\* What running task k's function on thread t does to the session, and what it
\* returns (ok) or raises (~ok), when the driver answers ch.
Out(pw, br, pg, cm, ok, msg, arg) ==
    [pw |-> pw, br |-> br, pg |-> pg, cm |-> cm, ok |-> ok, msg |-> msg, arg |-> arg]

Same(ok, msg) == Out(playwright, browser, page, commands, ok, msg, <<>>)

DoConnect(k, t, ch) ==
    IF playwright # None
    THEN Same(TRUE, "Playwright instance already exists.")
    ELSE Out(t, browser, page,
             Append(commands, Entry("p = sync_playwright().start()", <<>>, k, t)),
             TRUE, "Playwright context started.", <<>>)

\* open_browser._do without the line 175 test: it connects again whatever browser holds
DoOpenBrowserReconnects(k, t, ch) ==
    IF ws_endpoint = "None"
    THEN Same(TRUE, "MCP server not launched.")
    ELSE LET pw1 == IF playwright = None THEN t ELSE playwright
             cm1 == IF playwright = None
                    THEN Append(commands, Entry("p = sync_playwright().start()", <<>>, k, t))
                    ELSE commands
         IN CASE ch = "ok" ->
                   Out(pw1, "connected", "page",
                       cm1 \o << Entry("browser = playwright.chromium.connect", <<>>, k, t),
                                 Entry("page = browser.contexts[0].pages[0] if browser.contexts[0].pages else browser.contexts[0].new_page()", <<>>, k, t) >>,
                       TRUE, "Browser opened and connected successfully.", <<>>)
              [] ch = "fail" ->
                   Out(pw1, browser, page, cm1, TRUE, "Failed to connect to browser", <<>>)
              [] OTHER ->
                   Out(pw1, "connected", page, cm1, TRUE, "Failed to connect to browser", <<>>)

DoOpenBrowser(k, t, ch) ==
    IF ws_endpoint = "None"
    THEN Same(TRUE, "MCP server not launched.")
    ELSE LET pw1 == IF playwright = None THEN t ELSE playwright
             cm1 == IF playwright = None
                    THEN Append(commands, Entry("p = sync_playwright().start()", <<>>, k, t))
                    ELSE commands
         IN IF browser = "connected"
            THEN Out(pw1, browser, page, cm1, TRUE, "Browser is already open and connected.", <<>>)
            ELSE CASE ch = "ok" ->
                        Out(pw1, "connected", "page",
                            cm1 \o << Entry("browser = playwright.chromium.connect", <<>>, k, t),
                                      Entry("page = browser.contexts[0].pages[0] if browser.contexts[0].pages else browser.contexts[0].new_page()", <<>>, k, t) >>,
                            TRUE, "Browser opened and connected successfully.", <<>>)
                   [] ch = "fail" ->   \* chromium.connect raises Error
                        Out(pw1, browser, page, cm1, TRUE, "Failed to connect to browser", <<>>)
                   [] OTHER ->         \* connected, then new_context/new_page raises Error
                        Out(pw1, "connected", page, cm1, TRUE, "Failed to connect to browser", <<>>)

PageAvailable == page # "None" /\ browser = "connected"

DoGoto(k, t, ch) ==
    IF ~PageAvailable
    THEN Same(TRUE, "Page not available. Please open a browser first.")
    ELSE LET url_to_go == IF ~StartsWith(k.url, Http) THEN Scheme \o k.url ELSE k.url
         IN IF ch = "ok"
            THEN Out(playwright, browser, page,
                     Append(commands, Entry("page.goto", url_to_go, k, t)),
                     TRUE, "Navigated to", url_to_go)
            ELSE Same(FALSE, "page.goto raised")

DoGetPageContents(k, t, ch) ==
    IF ~PageAvailable
    THEN Same(TRUE, "Page not available. Please open a browser first.")
    ELSE IF ch = "ok" THEN Same(TRUE, "page text") ELSE Same(FALSE, "inner_text raised")

DoCloseBrowser(k, t, ch) ==
    IF browser = "connected" /\ ch # "ok"
    THEN Same(FALSE, "browser.close raised")
    ELSE Out(playwright, "None", "None",
             Append(commands, Entry("browser.close()", <<>>, k, t)),
             TRUE, "Browser closed.", <<>>)

DoClose(k, t, ch) ==
    IF browser = "connected" /\ ch = "fail"
    THEN Same(FALSE, "browser.close raised")
    ELSE IF playwright # None /\ ch = "fail2"
    THEN Out(playwright, IF browser = "connected" THEN "disconnected" ELSE browser,
             page, commands, FALSE, "playwright.stop raised", <<>>)
    ELSE Out(None, "None", "None",
             Append(commands, Entry("# Shutdown Playwright", <<>>, k, t)),
             TRUE, "True", <<>>)

Run(k, t, ch) ==
    CASE k.fn = "connect" -> DoConnect(k, t, ch)
      [] k.fn = "open_browser" -> DoOpenBrowser(k, t, ch)
      [] k.fn = "goto" -> DoGoto(k, t, ch)
      [] k.fn = "get_page_contents" -> DoGetPageContents(k, t, ch)
      [] k.fn = "close_browser" -> DoCloseBrowser(k, t, ch)
      [] OTHER -> DoClose(k, t, ch)

\* the (ok, value) pair the owner loop puts on the result queue
ResultOf(k, r) == [ok |-> r.ok, msg |-> r.msg, arg |-> r.arg, of |-> TaskId(k), fn |-> k.fn]

\* ------------------------------------------------------------------ the text of log entries
\* The strings the operations append to commands, character by character.
\* the endpoint address as it stands in the server's log (line 74)
EndpointText ==
    <<"w", "s", ":", "/", "/", "1", "2", "7", ".", "0", ".", "0", ".", "1", ":", "9", "9", "9",
      "9", "/", "a", "b", "c">>

\* line 77
TxtLaunched ==
    <<"#", " ", "L", "a", "u", "n", "c", "h", "e", "d", " ", "M", "C", "P", " ", "s", "e", "r",
      "v", "e", "r", " ", "a", "t", " ">>

\* lines 163, 174
TxtStart ==
    <<"p", " ", "=", " ", "s", "y", "n", "c", "_", "p", "l", "a", "y", "w", "r", "i", "g", "h",
      "t", "(", ")", ".", "s", "t", "a", "r", "t", "(", ")">>

\* line 184, up to the endpoint
TxtConnect ==
    <<"b", "r", "o", "w", "s", "e", "r", " ", "=", " ", "p", "l", "a", "y", "w", "r", "i", "g",
      "h", "t", ".", "c", "h", "r", "o", "m", "i", "u", "m", ".", "c", "o", "n", "n", "e", "c",
      "t", "(", "'">>

\* line 185
TxtPage ==
    <<"p", "a", "g", "e", " ", "=", " ", "b", "r", "o", "w", "s", "e", "r", ".", "c", "o", "n",
      "t", "e", "x", "t", "s", "[", "0", "]", ".", "p", "a", "g", "e", "s", "[", "0", "]", " ",
      "i", "f", " ", "b", "r", "o", "w", "s", "e", "r", ".", "c", "o", "n", "t", "e", "x", "t",
      "s", "[", "0", "]", ".", "p", "a", "g", "e", "s", " ", "e", "l", "s", "e", " ", "b", "r",
      "o", "w", "s", "e", "r", ".", "c", "o", "n", "t", "e", "x", "t", "s", "[", "0", "]", ".",
      "n", "e", "w", "_", "p", "a", "g", "e", "(", ")">>

\* line 201, up to the url
TxtGoto ==
    <<"p", "a", "g", "e", ".", "g", "o", "t", "o", "(", "'">>

\* lines 184, 201: the closing quote and parenthesis
TxtQuoteParen ==
    <<"'", ")">>

\* line 246
TxtClose ==
    <<"b", "r", "o", "w", "s", "e", "r", ".", "c", "l", "o", "s", "e", "(", ")">>

\* line 259
TxtShutdownPlaywright ==
    <<"#", " ", "S", "h", "u", "t", "d", "o", "w", "n", " ", "P", "l", "a", "y", "w", "r", "i",
      "g", "h", "t">>

\* line 284
TxtShutdownComplete ==
    <<"#", " ", "S", "h", "u", "t", "d", "o", "w", "n", " ", "c", "o", "m", "p", "l", "e", "t",
      "e">>

\* the string a log entry stands for
Text(e) ==
    CASE e.cmd = "# Launched MCP server at" -> TxtLaunched \o EndpointText
      [] e.cmd = "p = sync_playwright().start()" -> TxtStart
      [] e.cmd = "browser = playwright.chromium.connect" ->
             TxtConnect \o EndpointText \o TxtQuoteParen
      [] e.cmd = "page.goto" -> TxtGoto \o e.arg \o TxtQuoteParen
      [] e.cmd = "browser.close()" -> TxtClose
      [] e.cmd = "# Shutdown Playwright" -> TxtShutdownPlaywright
      [] OTHER -> TxtShutdownComplete

\* ------------------------------------------------------------------ save_script
\* line 303: cmd.startswith("#")
Hash ==
    <<"#">>
\* line 303
PatCdp ==
    <<"c", "o", "n", "n", "e", "c", "t", "_", "o", "v", "e", "r", "_", "c", "d", "p">>
\* line 303
PatStop ==
    <<"p", "l", "a", "y", "w", "r", "i", "g", "h", "t", ".", "s", "t", "o", "p">>
\* line 303
PatClose ==
    <<"b", "r", "o", "w", "s", "e", "r", ".", "c", "l", "o", "s", "e">>
\* line 303
PatStart ==
    <<"p", " ", "=", " ", "s", "y", "n", "c", "_", "p", "l", "a", "y", "w", "r", "i", "g", "h",
      "t">>
\* line 305
PatPages ==
    <<"b", "r", "o", "w", "s", "e", "r", ".", "c", "o", "n", "t", "e", "x", "t", "s", "[", "0",
      "]", ".", "p", "a", "g", "e", "s", "[", "0", "]">>
\* line 305
PatNewPage ==
    <<"n", "e", "w", "_", "p", "a", "g", "e", "(", ")">>
\* line 308
Indent ==
    <<" ", " ", " ", " ">>

\* Python's "p in s" on strings
Contains(s, p) ==
    \E i \in 1..(Len(s) - Len(p) + 1) : SubSeq(s, i, i + Len(p) - 1) = p

\* lines 303-306: the entries the loop passes over
Skipped(cmd) ==
    \/ StartsWith(cmd, Hash)
    \/ Contains(cmd, PatCdp) \/ Contains(cmd, PatStop) \/ Contains(cmd, PatClose)
    \/ Contains(cmd, PatStart)
    \/ Contains(cmd, PatPages) \/ Contains(cmd, PatNewPage)

RECURSIVE UserCommands(_)
\* lines 301-308: the lines written between the launch template and the closing template
UserCommands(cmds) ==
    IF cmds = <<>> THEN <<>>
    ELSE IF Skipped(Text(Head(cmds))) THEN UserCommands(Tail(cmds))
    ELSE <<Indent \o Text(Head(cmds))>> \o UserCommands(Tail(cmds))

\* ------------------------------------------------------------------ public entry
sess == <<mcp_server_process, playwright, browser, page, commands, ws_endpoint>>
handles == <<playwright, browser, page>>
local == <<ret, exc, launch_fail>>
counts == <<calls, budget, menu, on_owner>>

Returned(c, kind, msg, arg) ==
    [kind |-> kind, msg |-> msg, arg |-> arg, fn |-> cur[c].fn, n |-> cur[c].n]

\* a caller thread invokes a public operation of the controller
Call(c, op, url) ==
    /\ pc[c] = "idle"
    /\ budget > 0
    /\ op \in menu
    /\ budget' = budget - 1
    /\ UNCHANGED <<menu, on_owner>>
    /\ cur' = [cur EXCEPT ![c] = [fn |-> op, by |-> c, n |-> calls[c] + 1,
                                  url |-> IF op = "goto" THEN url ELSE <<>>]]
    /\ calls' = [calls EXCEPT ![c] = @ + 1]
    /\ pc' = [pc EXCEPT ![c] = IF op = "launch_mcp_server" THEN "launch"
                               ELSE IF op = "save_script" THEN "save" ELSE "ens"]
    /\ ret' = [ret EXCEPT ![c] = NoRet]
    /\ recovering' = IF recovering = -1 THEN c ELSE recovering
    /\ UNCHANGED <<sess, gate, got, exc, launch_fail, last_signal>>

\* save_script, lines 290-320, on the calling thread: the lines it writes between the
\* two templates are kept with what it returns
SaveScript(c) ==
    /\ pc[c] = "save"
    /\ pc' = [pc EXCEPT ![c] = "idle"]
    /\ ret' = [ret EXCEPT ![c] =
                 Returned(c, "return", "Script saved to", UserCommands(commands))]
    /\ cur' = [cur EXCEPT ![c] = NoTask]
    /\ recovering' = IF recovering = c THEN 0 ELSE recovering
    /\ UNCHANGED <<sess, gate, got, exc, launch_fail, counts, last_signal>>

\* ------------------------------------------------------------------ _call_on_worker
\* How thread t's _call_on_worker ends with outcome o, the result queue being rq:
\* a caller's public operation returns or raises it (shutdown swallows it and goes
\* on); a worker running "reentrant" hands it on as the outer task's result.
Complete(t, o, rq) ==
    IF t \in Workers
    THEN /\ result_queue' = Append(rq, ResultOf(cur[t], o))
         /\ pc' = [pc EXCEPT ![t] = "L1"]
         /\ cur' = [cur EXCEPT ![t] = NoTask]
         /\ UNCHANGED <<ret, recovering>>
    ELSE /\ result_queue' = rq
         /\ IF InShutdown(t)
            THEN /\ pc' = [pc EXCEPT ![t] = "sd_kill"]
                 /\ UNCHANGED <<cur, ret, recovering>>
            ELSE /\ pc' = [pc EXCEPT ![t] = "idle"]
                 /\ ret' = [ret EXCEPT ![t] =
                              Returned(t, IF o.ok THEN "return" ELSE "raise", o.msg, o.arg)]
                 /\ cur' = [cur EXCEPT ![t] = NoTask]
                 /\ recovering' = IF recovering = t THEN 0 ELSE recovering

Raised(msg) == [ok |-> FALSE, msg |-> msg, arg |-> <<>>]

\* _ensure_worker without the is_alive() test: a dead worker passes for a live one
EnsureWorkerNoLiveness(t) ==
    /\ pc[t] = "ens"
    /\ pc' = [pc EXCEPT ![t] = IF worker_thread # None THEN "id" ELSE "mk"]
    /\ UNCHANGED <<sess, gate, cur, got, local, counts, last_signal, recovering>>

\* _ensure_worker, line 124: is there a live worker?
EnsureWorker(t) ==
    /\ pc[t] = "ens"
    /\ pc' = [pc EXCEPT ![t] = IF worker_thread # None /\ IsAlive(worker_thread)
                               THEN "id" ELSE "mk"]
    /\ UNCHANGED <<sess, gate, cur, got, local, counts, last_signal, recovering>>

\* lines 142-143: clear the stop event; a new Thread object, not yet started
MakeThread(t) ==
    /\ pc[t] = "mk"
    /\ FreshWorker \in Workers
    /\ stop_event' = FALSE
    /\ worker_thread' = FreshWorker
    /\ pc' = [pc EXCEPT ![t] = "st", ![FreshWorker] = "created"]
    /\ UNCHANGED <<sess, owner_thread_id, task_queue, pending, result_queue,
                   cur, got, local, counts, last_signal, recovering>>

\* line 144: self._worker_thread.start(), on whatever the field holds by now
StartThread(t) ==
    /\ pc[t] = "st"
    /\ IF worker_thread # None /\ pc[worker_thread] = "created"
       THEN /\ pc' = [pc EXCEPT ![t] = "id", ![worker_thread] = "L0"]
            /\ UNCHANGED <<result_queue, cur, ret, recovering>>
       ELSE Complete(t, Raised(IF worker_thread = None THEN "AttributeError"
                                ELSE "RuntimeError: threads can only be started once"),
                     result_queue)
    /\ UNCHANGED <<sess, owner_thread_id, task_queue, pending, stop_event, worker_thread,
                   got, exc, launch_fail, counts, last_signal>>

\* lines 150-152: on the owner thread the function runs in place; any other
\* thread puts it on the task queue
Route(t) ==
    /\ pc[t] = "id"
    /\ IF t = owner_thread_id
       THEN /\ \E ch \in DriverOutcomes :
                 LET r == Run(Dispatched(t), t, ch) IN
                 /\ playwright' = r.pw
                 /\ browser' = r.br
                 /\ page' = r.pg
                 /\ commands' = r.cm
                 /\ Complete(t, r, result_queue)
            /\ UNCHANGED <<task_queue, pending>>
       ELSE /\ task_queue' = Append(task_queue, Dispatched(t))
            /\ pending' = Append(pending, Dispatched(t))
            /\ pc' = [pc EXCEPT ![t] = "get"]
            /\ UNCHANGED <<handles, commands, result_queue, cur, ret, recovering>>
    /\ UNCHANGED <<mcp_server_process, ws_endpoint, owner_thread_id,
                   stop_event, worker_thread, got, exc, launch_fail, counts, last_signal>>

\* lines 153-156: block until the result queue holds something, and take it
GetResult(t) ==
    /\ pc[t] = "get"
    /\ result_queue # <<>>
    /\ got' = [got EXCEPT ![t] = [res |-> Head(result_queue), for |-> Dispatched(t)]]
    /\ Complete(t, Head(result_queue), Tail(result_queue))
    /\ UNCHANGED <<sess, owner_thread_id, task_queue, pending, stop_event, worker_thread,
                   exc, launch_fail, counts, last_signal>>

\* ------------------------------------------------------------------ the owner loop
\* line 128
LoopEnter(w) ==
    /\ pc[w] = "L0"
    /\ owner_thread_id' = w
    /\ pc' = [pc EXCEPT ![w] = "L1"]
    /\ UNCHANGED <<sess, task_queue, pending, result_queue, stop_event, worker_thread,
                   cur, got, local, counts, last_signal, recovering>>

\* line 129
LoopCheck(w) ==
    /\ pc[w] = "L1"
    /\ pc' = [pc EXCEPT ![w] = IF stop_event THEN "exited" ELSE "L2"]
    /\ UNCHANGED <<sess, gate, cur, got, local, counts, last_signal, recovering>>

\* lines 130-136: get(timeout=0.1); Empty goes round, None leaves the loop
LoopGet(w) ==
    /\ pc[w] = "L2"
    /\ IF task_queue = <<>>
       THEN /\ pc' = [pc EXCEPT ![w] = "L1"]
            /\ UNCHANGED <<task_queue, pending, cur, on_owner>>
       ELSE /\ task_queue' = Tail(task_queue)
            /\ IF Head(task_queue) = Sentinel
               THEN /\ pc' = [pc EXCEPT ![w] = "exited"]
                    /\ UNCHANGED <<cur, on_owner, pending>>
               ELSE /\ cur' = [cur EXCEPT ![w] = Head(task_queue)]
                    /\ pending' = IF Head(task_queue).fn = "reentrant"
                                  THEN Without(pending, Head(task_queue)) ELSE pending
                    /\ pc' = [pc EXCEPT ![w] =
                                IF Head(task_queue).fn = "reentrant" THEN "ens" ELSE "exec"]
                    /\ on_owner' = IF Head(task_queue).fn = "reentrant" /\ w = owner_thread_id
                                   THEN on_owner \cup {w} ELSE on_owner \ {w}
    /\ UNCHANGED <<sess, owner_thread_id, result_queue, stop_event, worker_thread,
                   got, local, calls, budget, menu, last_signal, recovering>>

\* the owner loop without the except clause of lines 140-141: an exception raised by
\* the function ends the thread and no result is put
ExecUncaught(w) ==
    /\ pc[w] = "exec"
    /\ \E ch \in DriverOutcomes :
         LET r == Run(cur[w], w, ch) IN
         /\ playwright' = r.pw
         /\ browser' = r.br
         /\ page' = r.pg
         /\ commands' = r.cm
         /\ result_queue' = IF r.ok THEN Append(result_queue, ResultOf(cur[w], r))
                            ELSE result_queue
         /\ pc' = [pc EXCEPT ![w] = IF r.ok THEN "L1" ELSE "dead"]
    /\ cur' = [cur EXCEPT ![w] = NoTask]
    /\ pending' = Without(pending, cur[w])
    /\ UNCHANGED <<mcp_server_process, ws_endpoint, owner_thread_id, task_queue,
                   stop_event, worker_thread, got, local, counts, last_signal, recovering>>

\* lines 137-141: run the function, put (True, result) or (False, exception)
Exec(w) ==
    /\ pc[w] = "exec"
    /\ \E ch \in DriverOutcomes :
         LET r == Run(cur[w], w, ch) IN
         /\ playwright' = r.pw
         /\ browser' = r.br
         /\ page' = r.pg
         /\ commands' = r.cm
         /\ result_queue' = Append(result_queue, ResultOf(cur[w], r))
    /\ pc' = [pc EXCEPT ![w] = "L1"]
    /\ cur' = [cur EXCEPT ![w] = NoTask]
    /\ pending' = Without(pending, cur[w])
    /\ UNCHANGED <<mcp_server_process, ws_endpoint, owner_thread_id, task_queue,
                   stop_event, worker_thread, got, local, counts, last_signal, recovering>>

\* the owner thread dies while it is idle and no operation is in progress
Kill(w) ==
    /\ pc[w] \in {"L1", "L2"}
    /\ \A c \in Callers : pc[c] = "idle"
    /\ recovering = 0
    /\ pc' = [pc EXCEPT ![w] = "dead"]
    /\ recovering' = -1
    /\ UNCHANGED <<sess, gate, cur, got, local, counts, last_signal>>

\* ------------------------------------------------------------------ launch_mcp_server
\* a public call is over: what it returned or raised, back to the caller's own code
Finish(c, kind, msg) ==
    /\ pc' = [pc EXCEPT ![c] = "idle"]
    /\ ret' = [ret EXCEPT ![c] = Returned(c, kind, msg, <<>>)]
    /\ cur' = [cur EXCEPT ![c] = NoTask]
    /\ exc' = [exc EXCEPT ![c] = "none"]
    /\ launch_fail' = [launch_fail EXCEPT ![c] = "none"]
    /\ recovering' = IF recovering = c THEN 0 ELSE recovering

\* lines 31-40: poll() reaps an exited server; a live one is kept, else one is spawned
LaunchSpawn(c) ==
    /\ pc[c] = "launch"
    /\ IF mcp_server_process = "alive"
       THEN /\ Finish(c, "return", "Server already running.")
            /\ UNCHANGED mcp_server_process
       ELSE /\ mcp_server_process' = "alive"
            /\ pc' = [pc EXCEPT ![c] = "la_poll"]
            /\ UNCHANGED <<cur, local, recovering>>
    /\ UNCHANGED <<handles, commands, ws_endpoint, gate, got, counts, last_signal>>

\* lines 48-78: the log shows a ws:// endpoint while the server is running
LaunchFound(c) ==
    /\ pc[c] = "la_poll"
    /\ mcp_server_process = "alive"
    /\ ws_endpoint' = Endpoint
    /\ commands' = Append(commands, Entry("# Launched MCP server at", <<>>, cur[c], c))
    /\ Finish(c, "return", "MCP server launched. Endpoint:")
    /\ UNCHANGED <<mcp_server_process, handles, gate, got, counts, last_signal>>

\* lines 50-60: poll() finds the server gone (and reaps it), and shutdown comes
\* next; with the field cleared by another thread's shutdown, None has no poll()
LaunchExited(c) ==
    /\ pc[c] = "la_poll"
    /\ mcp_server_process # "alive"
    /\ IF mcp_server_process = "None"
       THEN /\ Finish(c, "raise", "AttributeError")
            /\ UNCHANGED mcp_server_process
       ELSE /\ mcp_server_process' = "reaped"
            /\ launch_fail' = [launch_fail EXCEPT ![c] = "process exited early"]
            /\ pc' = [pc EXCEPT ![c] = "ens"]
            /\ UNCHANGED <<cur, ret, exc, recovering>>
    /\ UNCHANGED <<handles, commands, ws_endpoint, gate, got, counts, last_signal>>

\* lines 48, 89-99: the timeout elapses with the server still running; shutdown comes next
LaunchTimeout(c) ==
    /\ pc[c] = "la_poll"
    /\ mcp_server_process = "alive"
    /\ launch_fail' = [launch_fail EXCEPT ![c] = "timeout waiting for endpoint"]
    /\ pc' = [pc EXCEPT ![c] = "ens"]
    /\ UNCHANGED <<sess, gate, cur, got, ret, exc, counts, last_signal, recovering>>

\* the server process ends on its own
ServerExits ==
    /\ mcp_server_process = "alive"
    /\ mcp_server_process' = "zombie"
    /\ browser' = IF browser = "connected" THEN "disconnected" ELSE browser
    /\ UNCHANGED <<playwright, page, commands, ws_endpoint, gate, pc, cur, got, local,
                   counts, last_signal, recovering>>

\* ------------------------------------------------------------------ shutdown
\* lines 268-275: getpgid on a reaped pid raises ProcessLookupError, which leaves
\* the try block for the finally; else SIGTERM, SIGKILL if it is ignored for 5 s
ShutdownKill(c) ==
    /\ pc[c] = "sd_kill"
    /\ pc' = [pc EXCEPT ![c] = "sd_fin"]
    /\ CASE mcp_server_process = "None" ->
              /\ ws_endpoint' = "None"
              /\ UNCHANGED <<mcp_server_process, browser, exc, last_signal>>
         [] mcp_server_process = "reaped" ->
              /\ exc' = [exc EXCEPT ![c] = "ProcessLookupError"]
              /\ UNCHANGED <<mcp_server_process, ws_endpoint, browser, last_signal>>
         [] OTHER ->
              /\ \E ignored \in {FALSE, mcp_server_process = "alive"} :
                   last_signal' = IF ignored THEN "SIGKILL" ELSE "SIGTERM"
              /\ mcp_server_process' = "None"
              /\ ws_endpoint' = "None"
              /\ browser' = IF browser = "connected" THEN "disconnected" ELSE browser
              /\ UNCHANGED exc
    /\ UNCHANGED <<playwright, page, commands, gate, cur, got, ret, launch_fail, counts,
                   recovering>>

\* lines 282-285, and back in launch_mcp_server lines 61-64 or 100-104
Clear(c) ==
    /\ worker_thread' = None
    /\ owner_thread_id' = None
    /\ commands' = Append(commands, Entry("# Shutdown complete", <<>>, cur[c], c))
    /\ IF exc[c] # "none"
       THEN Finish(c, "raise", exc[c])
       ELSE IF cur[c].fn = "launch_mcp_server"
       THEN Finish(c, "raise", "RuntimeError: Failed to launch MCP server")
       ELSE Finish(c, "return", "Shutdown complete.")

\* lines 278-279: a live worker is told to stop; with none, on to lines 282-285
ShutdownFinally(c) ==
    /\ pc[c] = "sd_fin"
    /\ IF worker_thread # None /\ IsAlive(worker_thread)
       THEN /\ stop_event' = TRUE
            /\ pc' = [pc EXCEPT ![c] = "sd_sent"]
            /\ UNCHANGED <<commands, owner_thread_id, worker_thread, cur, local, recovering>>
       ELSE /\ Clear(c)
            /\ UNCHANGED stop_event
    /\ UNCHANGED <<mcp_server_process, handles, ws_endpoint, task_queue, pending, result_queue,
                   got, counts, last_signal>>

\* line 280
ShutdownSentinel(c) ==
    /\ pc[c] = "sd_sent"
    /\ task_queue' = Append(task_queue, Sentinel)
    /\ pc' = [pc EXCEPT ![c] = "sd_join"]
    /\ UNCHANGED <<sess, owner_thread_id, result_queue, stop_event, worker_thread, pending,
                   cur, got, local, counts, last_signal, recovering>>

\* a worker that join(timeout=2) can outlast: it is inside a task, or nothing tells
\* it to stop (the stop event cleared again and no sentinel queued)
Outlasts(w) ==
    /\ IsAlive(w)
    /\ \/ pc[w] \notin {"L0", "L1", "L2"}
       \/ (~stop_event /\ \A i \in 1..Len(task_queue) : task_queue[i] # Sentinel)

\* lines 281-285: self._worker_thread.join(timeout=2), on whatever the field holds
\* by now, then the fields are cleared
ShutdownJoin(c) ==
    /\ pc[c] = "sd_join"
    /\ IF worker_thread = None
       THEN /\ Finish(c, "raise", "AttributeError")
            /\ UNCHANGED <<commands, owner_thread_id, worker_thread>>
       ELSE /\ ~IsAlive(worker_thread) \/ Outlasts(worker_thread)
            /\ Clear(c)
    /\ UNCHANGED <<mcp_server_process, handles, ws_endpoint, task_queue, pending, result_queue,
                   stop_event, got, counts, last_signal>>

\* ------------------------------------------------------------------ specifications
Dispatch(t) ==
    \/ EnsureWorker(t) \/ MakeThread(t) \/ StartThread(t)
    \/ Route(t) \/ GetResult(t)

CallerStep(c) ==
    \/ Dispatch(c)
    \/ LaunchSpawn(c) \/ LaunchFound(c) \/ LaunchExited(c) \/ LaunchTimeout(c)
    \/ ShutdownKill(c) \/ ShutdownFinally(c) \/ ShutdownSentinel(c) \/ ShutdownJoin(c)

WorkerLoop(w) ==
    \/ LoopEnter(w) \/ LoopCheck(w) \/ LoopGet(w) \/ Exec(w)

WorkerStep(w) ==
    \/ WorkerLoop(w) \/ Dispatch(w)

Next ==
    \/ \E c \in Callers, op \in Ops, url \in Urls : Call(c, op, url)
    \/ \E c \in Callers : CallerStep(c)
    \/ \E w \in Workers : WorkerStep(w)
    \/ \E w \in Workers : Kill(w)
    \/ ServerExits

Spec == Init /\ [][Next]_vars

NextSeq ==
    \/ \E c \in SeqCallers, op \in Ops, url \in Urls : Call(c, op, url)
    \/ \E c \in SeqCallers : CallerStep(c)
    \/ \E w \in Workers : WorkerStep(w)
    \/ \E w \in Workers : Kill(w)
    \/ ServerExits

SpecSeq == InitSeq /\ [][NextSeq]_vars

NextLog ==
    \/ \E c \in Callers, op \in LogOps : Call(c, op, <<>>)
    \/ \E c \in Callers : Dispatch(c)
    \/ \E w \in Workers : WorkerLoop(w)

SpecLog == InitLog /\ [][NextLog]_vars

SpecTour == InitTour /\ [][NextSeq]_vars

NextScript ==
    \/ \E c \in SeqCallers, op \in ScriptOps, url \in Urls : Call(c, op, url)
    \/ \E c \in SeqCallers : CallerStep(c) \/ SaveScript(c)
    \/ \E w \in Workers : WorkerLoop(w)
    \/ ServerExits

SpecScript == InitScript /\ [][NextScript]_vars

\* ------------------------------------------------------------------ fairness
\* Every started thread keeps being scheduled; nothing obliges a caller to invoke
\* another operation, the server to exit or a worker to die.
FairSeq ==
    /\ InitFair /\ [][NextSeq]_vars
    /\ \A c \in SeqCallers : WF_vars(CallerStep(c))
    /\ \A w \in Workers : WF_vars(WorkerStep(w))

\* ------------------------------------------------------------------ claims
Alive == {w \in Workers : IsAlive(w)}

\* a thread in the middle of code that reads and writes Session State: a worker
\* running a dequeued function (line 138), a caller inside launch_mcp_server
\* between its write of mcp_server_process (line 40) and of ws_endpoint (line 76)
Accessing(t) ==
    \/ t \in Workers /\ pc[t] = "exec"
    \/ t \in Callers /\ pc[t] = "la_poll"

\* C1: at most one thread at a time is reading or writing Session State: while a
\* worker runs an operation body, no other worker runs one and no caller thread is
\* inside launch_mcp_server's own code
C1Stated ==
    \A w \in Workers :
        pc[w] = "exec" => \A t \in Threads \ {w} : ~Accessing(t)

\* C2: the thread running a body that touches playwright, browser and page is the
\* current owner thread
C2Stated == \A t \in Threads : pc[t] = "exec" => t = owner_thread_id

\* C3: at most one owner (worker) thread of the controller is alive
C3Stated == Cardinality(Alive) <= 1

\* C4: the result a _call_on_worker call takes from the result queue is the one
\* produced by the function this very call enqueued
C4Stated ==
    \A t \in Threads :
        got[t].res.fn # "none" =>
            /\ got[t].res.of = TaskId(got[t].for)
            /\ got[t].res.fn = got[t].for.fn

\* C5: the command log holds no operation's entry twice, and the entries of one
\* caller thread stand in the order in which that thread submitted its operations
C5Stated ==
    \A i, j \in 1..Len(commands) :
        (i < j /\ commands[i].of[1] = commands[j].of[1])
            => commands[i].of[2] < commands[j].of[2]

\* C6: an operation that the owner thread took from the queue and that calls
\* another operation through _call_on_worker gets it run in place: the worker puts
\* nothing on the task queue for it and never waits on the result queue
C6Stated ==
    \A w \in Workers :
        (cur[w].fn = "reentrant" /\ w \in on_owner) => pc[w] # "get"

ShutdownReturned ==
    \E i \in 1..Len(commands) : commands[i].cmd = "# Shutdown complete"

\* a caller blocked for good in result_queue.get(): nothing to take, and no
\* running or startable worker left to produce anything
Stuck(c) ==
    /\ pc[c] = "get"
    /\ result_queue = <<>>
    /\ \A w \in Workers : ~IsAlive(w) /\ pc[w] # "created"

\* C7: after a shutdown has returned, an operation dispatched through
\* _call_on_worker is served by a fresh owner thread: its caller is never left
\* waiting on the result queue with no worker to answer
C7Stated == \A c \in Callers : ShutdownReturned => ~Stuck(c)

OwnershipErrors == {"AttributeError", "RuntimeError: threads can only be started once"}

C9Stated ==
    \A c \in Callers :
        ret[c].fn = "shutdown" => (ret[c].kind = "return" /\ ret[c].msg = "Shutdown complete.")

\* C10: right after a call to shutdown has ended, the server process, the three
\* handles and the endpoint are None, no owner thread is alive and
\* _owner_thread_id is None
C10Stated ==
    \A c \in SeqCallers :
        (pc[c] = "idle" /\ ret[c].fn = "shutdown") =>
            /\ mcp_server_process = "None"
            /\ playwright = None
            /\ browser = "None"
            /\ page = "None"
            /\ ws_endpoint = "None"
            /\ Alive = {}
            /\ owner_thread_id = None

\* C11: a launch_mcp_server that fails raises the launch failure (RuntimeError
\* "Failed to launch MCP server"), and when it has ended no server process is held,
\* ws_endpoint is None and no owner thread is alive
C11Stated ==
    \A c \in SeqCallers :
        (ret[c].fn = "launch_mcp_server" /\ ret[c].kind = "raise") =>
            /\ ret[c].msg = "RuntimeError: Failed to launch MCP server"
            /\ pc[c] = "idle" =>
                 /\ mcp_server_process = "None"
                 /\ ws_endpoint = "None"
                 /\ Alive = {}

AlreadyOpen == "Browser is already open and connected."

\* C12: open_browser called while the browser is open and connected changes neither
\* browser, page nor the driver handle, appends nothing to commands, and its caller
\* is returned the already-open status
C12Idempotent ==
    [][ /\ \A w \in Workers :
             (pc[w] = "exec" /\ pc'[w] # "exec"
                /\ cur[w].fn = "open_browser" /\ browser = "connected") =>
                 /\ browser' = browser /\ page' = page /\ playwright' = playwright
                 /\ commands' = commands
                 /\ result_queue' = Append(result_queue,
                        [ok |-> TRUE, msg |-> AlreadyOpen, arg |-> <<>>,
                         of |-> TaskId(cur[w]), fn |-> "open_browser"])
        /\ \A c \in SeqCallers :
             (pc[c] = "get" /\ pc'[c] = "idle" /\ cur[c].fn = "open_browser"
                /\ Head(result_queue).msg = AlreadyOpen) =>
                 /\ ret'[c].kind = "return"
                 /\ ret'[c].msg = AlreadyOpen
                 /\ browser' = browser /\ page' = page /\ commands' = commands
      ]_vars

\* C12 witness: an open_browser call has returned the already-open status and the
\* browser is still connected
C12Witness ==
    \E c \in SeqCallers :
        /\ pc[c] = "idle"
        /\ ret[c].fn = "open_browser"
        /\ ret[c].msg = AlreadyOpen
        /\ browser = "connected" /\ page = "page"

Logged(i, cmd) == i \in 1..Len(commands) /\ commands[i].cmd = cmd

\* entry l of the command log closes a shutdown call that came after a successful
\* launch_mcp_server, open_browser and goto, with no launch since
AfterTour(l) ==
    /\ Logged(l, "# Shutdown complete")
    /\ commands[l].op = "shutdown"
    /\ \E i, j, k \in 1..Len(commands) :
         /\ i < j /\ j < k /\ k < l
         /\ Logged(i, "# Launched MCP server at")
         /\ Logged(j, "browser = playwright.chromium.connect")
         /\ Logged(k, "page.goto")
         /\ \A m \in (i + 1)..Len(commands) : ~Logged(m, "# Launched MCP server at")
         /\ \A m \in (i + 1)..(l - 1) : ~Logged(m, "# Shutdown complete")

\* C13: the shutdown that follows a successful launch_mcp_server, open_browser and
\* goto returns "Shutdown complete.", and an open_browser called after it, with no
\* launch in between, is answered, with "MCP server not launched."
C13Stated ==
    \A c \in SeqCallers, l \in 1..Len(commands) :
        (AfterTour(l) /\ commands[l].th = c) =>
            /\ (ret[c].fn = "shutdown" /\ ret[c].n = commands[l].of[2]) =>
                   (ret[c].kind = "return" /\ ret[c].msg = "Shutdown complete.")
            /\ (ret[c].fn = "open_browser" /\ ret[c].n > commands[l].of[2]) =>
                   (ret[c].kind = "return" /\ ret[c].msg = "MCP server not launched.")
            /\ (cur[c].fn = "open_browser" /\ cur[c].n > commands[l].of[2]) => ~Stuck(c)

RECURSIVE GotoLines(_)
\* the navigation entries of a command log, in log order, as save_script writes them
GotoLines(cmds) ==
    IF cmds = <<>> THEN <<>>
    ELSE IF Head(cmds).cmd = "page.goto"
    THEN <<Indent \o Text(Head(cmds))>> \o GotoLines(Tail(cmds))
    ELSE GotoLines(Tail(cmds))

\* C14: the lines save_script writes between its launch template and its closing
\* template are exactly the page.goto entries of the command log, in log order
C14Stated ==
    \A c \in SeqCallers :
        ret[c].fn = "save_script" => ret[c].arg = GotoLines(commands)

SchemeTls == <<"h", "t", "t", "p", "s", ":", "/", "/">>

\* a url that begins with "http://" or "https://"
HasScheme(u) == StartsWith(u, Scheme) \/ StartsWith(u, SchemeTls)

\* C15: goto navigates to, logs and reports "http://" + url when url has no scheme,
\* and url itself when it has one
C15Stated ==
    \A c \in SeqCallers :
        (got[c].res.fn = "goto" /\ got[c].res.msg = "Navigated to") =>
            /\ got[c].res.arg = IF HasScheme(got[c].for.url) THEN got[c].for.url
                                ELSE Scheme \o got[c].for.url
            /\ \A i \in 1..Len(commands) :
                 (commands[i].cmd = "page.goto" /\ commands[i].of = got[c].res.of)
                     => commands[i].arg = got[c].res.arg

\* C16: the functions put on the task queue are called in the order in which they
\* were put: whenever a worker calls one, every function put before it has been
\* called already
C16Stated ==
    [][ \A w \in Workers :
            (pc[w] = "exec" /\ pc'[w] # "exec") => cur[w] = Head(pending) ]_vars

\* the exceptions the operation bodies raise
BodyErrors == {"page.goto raised", "inner_text raised", "browser.close raised",
               "playwright.stop raised"}

\* C17: when the function the owner loop calls raises, the loop puts the exception
\* on the result queue as a failure and stays in its loop, ready for the next task
\* exactly as after a success; the caller that takes the failure raises that same
\* exception
C17Stated ==
    [][ /\ \A w \in Workers :
             (pc[w] = "exec" /\ pc'[w] # "exec") =>
                 /\ pc'[w] = "L1" /\ cur'[w] = NoTask
                 /\ \E ch \in DriverOutcomes :
                      result_queue' =
                          Append(result_queue, ResultOf(cur[w], Run(cur[w], w, ch)))
        /\ \A c \in SeqCallers :
             (pc[c] = "get" /\ pc'[c] = "idle" /\ ~Head(result_queue).ok) =>
                 /\ ret'[c].kind = "raise"
                 /\ ret'[c].msg = Head(result_queue).msg
                 /\ ret'[c].msg \in BodyErrors
                 /\ worker_thread' # None /\ pc'[worker_thread'] \in {"L1", "L2"}
      ]_vars

\* C17 witness: a caller has been raised the exception of its operation's body and
\* the worker that ran it is in its loop, waiting for the next task
C17Witness ==
    \E c \in SeqCallers, w \in Workers :
        /\ pc[c] = "idle" /\ ret[c].kind = "raise" /\ ret[c].msg \in BodyErrors
        /\ got[c].res.of = <<c, ret[c].n>>
        /\ pc[w] \in {"L1", "L2"} /\ worker_thread = w /\ ~stop_event

\* C18: every entry of the command log was appended by code running on an owner
\* (worker) thread, none by a caller thread
C18Stated == \A i \in 1..Len(commands) : commands[i].th \in Workers

\* C19: when a worker runs an operation, the driver handle is unset or was created
\* by that worker, and browser or page is set only if the driver handle is: nothing
\* created by an earlier owner thread is left for a new owner to run on
C19Stated ==
    \A w \in Workers :
        pc[w] = "exec" =>
            /\ playwright \in {None, w}
            /\ (browser # "None" \/ page # "None") => playwright = w

\* shutdown has set the stop event and put the sentinel for worker w, the only
\* worker thread the controller has ever started
Stopping(w) ==
    /\ stop_event
    /\ Created = {w}
    /\ \E c \in Callers : pc[c] = "sd_join" /\ worker_thread = w
    /\ \E i \in 1..Len(task_queue) : task_queue[i] = Sentinel

\* C20: once shutdown has set the stop event and put the sentinel, the owner loop
\* takes no further task from the task queue to execute, also when the task of
\* another caller, who is waiting for its result, is at the head of the queue
C20Stated ==
    [][ \A w \in Workers :
            (/\ Stopping(w) /\ pc[w] = "L2"
             /\ \E c \in Callers : pc[c] = "get" /\ Dispatched(c) = Head(task_queue))
                => pc'[w] \notin {"exec", "ens"} ]_vars

\* a caller is inside shutdown's own code, between the close step and the reset of
\* _owner_thread_id at line 283
Resetting == \E c \in Callers : pc[c] \in {"sd_kill", "sd_fin", "sd_sent", "sd_join"}

\* C21: _owner_thread_id is None or the identity of an owner thread that is alive,
\* shutdown's own passage from stopping the thread to resetting the field apart
C21Stated ==
    ~Resetting =>
        \/ owner_thread_id = None
        \/ owner_thread_id \in Workers /\ IsAlive(owner_thread_id)

\* C22: whenever no caller is inside a public operation, the task queue and the
\* result queue are empty
C22Stated ==
    (\A c \in Callers : pc[c] = "idle") => (task_queue = <<>> /\ result_queue = <<>>)

====
